---- MODULE Spec2Model ----
(***************************************************************************)
(* Connect-6 engine: the board and turn model of src/src/board.py and      *)
(* src/src/game_logic.py, the evaluators of src/src/heuristics.py and the  *)
(* two search entry points of src/src/minimax.py and src/src/alpha_beta.py.*)
(*                                                                         *)
(* A game object is a record.  A method that may raise returns a record    *)
(* [game, ret, exc]: the object after the call, the value returned and the *)
(* name of the exception that left the method ("" when none did).          *)
(* None is modelled by the integer NoneVal, a Python list by a sequence, a  *)
(* Python set by a set, a coordinate (x, y) by the tuple <<x, y>>.          *)
(***************************************************************************)
EXTENDS Integers, Sequences, FiniteSets, TLC

\* ------------------------------------------------------------------ bounds
MaxCalls == 2
MaxAiCalls == 1
MaxSearchCalls == 2
MaxCopyCalls == 3
MaxNodeCalls == 1
MaxTurns == 19
CopySize == 3

\* --------------------------------------------------------------- constants
EMPTY == "."
AI == "O"
PLAYER == "X"
EVAL1 == "heuristic_1"
MAX_CANDIDATES == 12
human_player == "X"
ai_player == "O"
NoneVal == -1
INF == 1000000000
DEFAULT_RADIUS == 2
HUMAN_FOCUS_RADIUS == 3
ORDER_LIMIT == 500
WinLength == 6
AB_LIMIT == 20
AB_TOP == 15
CENTER_WINDOW == 4
RELEVANT_RADIUS == 3

Players == {"X", "O"}
directions == << <<1, 0>>, <<0, 1>>, <<1, 1>>, <<1, -1>> >>

\* ------------------------------------------------------------- board.py
Cells(size) == (0 .. size - 1) \X (0 .. size - 1)

InBounds(size, x, y) == 0 <= x /\ x < size /\ 0 <= y /\ y < size

\* Board.__init__: a size x size grid of EMPTY
NewGrid(size) == [c \in Cells(size) |-> EMPTY]

\* Board.is_valid_move
is_valid_move(g, x, y) == InBounds(g.size, x, y) /\ g.grid[<<x, y>>] = "."

\* Board.place_move: the grid after the call (unchanged when the move is invalid)
place_move(g, x, y, player) ==
    IF is_valid_move(g, x, y) THEN [g.grid EXCEPT ![<<x, y>>] = player] ELSE g.grid

\* Board.is_full
is_full(g) == \A c \in Cells(g.size) : g.grid[c] # "."

\* class Board defines no get_empty_cells_count: the attribute lookup raises
get_empty_cells_count(g) == [exc |-> "AttributeError", val |-> 0]

\* ---------------------------------------------------------- game_logic.py
\* Connect6Game.__init__ with the default human_player and ai_player
NewGame(size, algorithm, heur) ==
    [ size |-> size,
      grid |-> NewGrid(size),
      current_player |-> "X",
      first_move |-> TRUE,
      human_player |-> human_player,
      ai_player |-> ai_player,
      ai_algorithm |-> algorithm,
      heuristic |-> heur,
      last_row |-> NoneVal,
      last_col |-> NoneVal,
      last_human_moves |-> {},
      available_moves |-> Cells(size) ]

set_ai_config(g, algorithm, heur) ==
    [g EXCEPT !.ai_algorithm = algorithm, !.heuristic = heur]

is_ai_turn(g) == g.current_player = g.ai_player

OtherPlayer(p) == IF p = "X" THEN "O" ELSE "X"

switch_player(g) == [g EXCEPT !.current_player = OtherPlayer(g.current_player)]

\* _remove_move that leaves the set as it is
_remove_move_kept(g, x, y) == g

_remove_move(g, x, y) == [g EXCEPT !.available_moves = @ \ {<<x, y>>}]

_add_move(g, x, y) ==
    IF InBounds(g.size, x, y)
    THEN [g EXCEPT !.available_moves = @ \cup {<<x, y>>}]
    ELSE g

\* Connect6Game.is_draw: [exc, val]
is_draw(g) ==
    IF is_full(g) THEN [exc |-> "", val |-> TRUE]
    ELSE LET empty_count == get_empty_cells_count(g)
             board_size_even == (g.size % 2 = 0)
             requires_two_moves == ~g.first_move
         IN  IF empty_count.exc # "" THEN [exc |-> empty_count.exc, val |-> FALSE]
             ELSE IF board_size_even /\ empty_count.val = 1 /\ requires_two_moves
                  THEN [exc |-> "", val |-> TRUE]
                  ELSE [exc |-> "", val |-> FALSE]

\* the inner while loops of check_winner: stones of `player` from (i, j) on
RECURSIVE CountRun(_, _, _, _, _, _, _)
CountRun(grid, size, i, j, dx, dy, player) ==
    IF InBounds(size, i, j) /\ grid[<<i, j>>] = player
    THEN 1 + CountRun(grid, size, i + dx, j + dy, dx, dy, player)
    ELSE 0

\* count of one axis through (x, y), the stone at (x, y) included
AxisCount(grid, size, x, y, d, player) ==
    1 + CountRun(grid, size, x + d[1], y + d[2], d[1], d[2], player)
      + CountRun(grid, size, x - d[1], y - d[2], -d[1], -d[2], player)

\* check_winner counting a run of five as a win
check_winner_five(g, x, y) ==
    IF ~InBounds(g.size, x, y) THEN FALSE
    ELSE LET player == g.grid[<<x, y>>]
         IN  IF player = "." THEN FALSE
             ELSE \E k \in 1 .. 4 :
                      AxisCount(g.grid, g.size, x, y, directions[k], player) >= WinLength - 1

\* Connect6Game.check_winner
check_winner(g, x, y) ==
    IF ~InBounds(g.size, x, y) THEN FALSE
    ELSE LET player == g.grid[<<x, y>>]
         IN  IF player = "." THEN FALSE
             ELSE \E k \in 1 .. 4 :
                      AxisCount(g.grid, g.size, x, y, directions[k], player) >= WinLength

\* the for loop of _validate_moves_atomic from index k on, `seen` so far
RECURSIVE ValidateLoop(_, _, _, _)
ValidateLoop(g, moves, k, seen) ==
    IF k > Len(moves) THEN [ok |-> TRUE, reason |-> ""]
    ELSE LET x == moves[k][1]
             y == moves[k][2]
         IN  IF ~InBounds(g.size, x, y)
             THEN [ok |-> FALSE, reason |-> "out of bounds"]
             ELSE IF g.grid[<<x, y>>] # "."
             THEN [ok |-> FALSE, reason |-> "already occupied"]
             ELSE IF <<x, y>> \in seen
             THEN [ok |-> FALSE, reason |-> "Duplicate move"]
             ELSE ValidateLoop(g, moves, k + 1, seen \cup {<<x, y>>})

\* _validate_moves_atomic rejecting only a turn that is too long
validate_at_most(g, moves) ==
    LET required_moves == IF g.first_move THEN 1 ELSE 2
    IN  IF Len(moves) > required_moves
        THEN [ok |-> FALSE, reason |-> "You must provide exactly required_moves move(s)."]
        ELSE ValidateLoop(g, moves, 1, {})

\* Connect6Game._validate_moves_atomic
_validate_moves_atomic(g, moves) ==
    LET required_moves == IF g.first_move THEN 1 ELSE 2
    IN  IF Len(moves) # required_moves
        THEN [ok |-> FALSE, reason |-> "You must provide exactly required_moves move(s)."]
        ELSE ValidateLoop(g, moves, 1, {})

\* the placement loop of play_turn from index k on: [game, won]
RECURSIVE PlaceLoop(_, _, _)
PlaceLoop(g, moves, k) ==
    IF k > Len(moves) THEN [game |-> g, won |-> FALSE]
    ELSE LET x == moves[k][1]
             y == moves[k][2]
             g1 == [g EXCEPT !.grid = place_move(g, x, y, g.current_player)]
             g2 == _remove_move(g1, x, y)
         IN  IF check_winner(g2, x, y) THEN [game |-> g2, won |-> TRUE]
             ELSE PlaceLoop(g2, moves, k + 1)

\* play_turn once the turn has passed validation: steps 2 to 4 and the
\* bookkeeping that follows them
ApplyTurn(g, moves) ==
    LET placed == PlaceLoop(g, moves, 1)
        gp == placed.game
    IN  IF placed.won THEN [game |-> gp, ret |-> TRUE, exc |-> ""]
        ELSE
        LET draw == is_draw(gp)
        IN  IF draw.exc # "" THEN [game |-> gp, ret |-> FALSE, exc |-> draw.exc]
            ELSE IF draw.val THEN [game |-> gp, ret |-> TRUE, exc |-> ""]
            ELSE
            LET last == moves[Len(moves)]
                g3 == [gp EXCEPT !.first_move = FALSE,
                                 !.last_row = last[1],
                                 !.last_col = last[2],
                                 !.last_human_moves =
                                     IF gp.current_player = gp.human_player
                                     THEN {moves[i] : i \in 1 .. Len(moves)}
                                     ELSE @]
            IN  [game |-> switch_player(g3), ret |-> FALSE, exc |-> ""]

\* play_turn passing the move to the other player when the turn is rejected
play_turn_switching(g, moves) ==
    LET v == _validate_moves_atomic(g, moves)
    IN  IF ~v.ok THEN [game |-> switch_player(g), ret |-> FALSE, exc |-> ""]
        ELSE ApplyTurn(g, moves)

\* Connect6Game.play_turn: [game, ret, exc]
play_turn(g, moves) ==
    LET v == _validate_moves_atomic(g, moves)
    IN  IF ~v.ok THEN [game |-> g, ret |-> FALSE, exc |-> ""]
        ELSE ApplyTurn(g, moves)

\* ----------------------------------------------------------- heuristics.py
\* Scores are kept in tenths (heuristic_2 adds multiples of 0.1), so that
\* every score is an integer: heuristic_1's weights appear multiplied by 10.
Abs(n) == IF n < 0 THEN -n ELSE n

\* the function f as a table: each value is computed once, not at every use
Table(f) == IF f = << >> THEN f ELSE f
Max2(a, b) == IF a >= b THEN a ELSE b
Min2(a, b) == IF a <= b THEN a ELSE b

\* weights = {2: 1, 3: 10, 4: 100, 5: 1000}, weights.get(count, 0)
weights(count) ==
    CASE count = 2 -> 1
      [] count = 3 -> 10
      [] count = 4 -> 100
      [] count = 5 -> 1000
      [] OTHER -> 0

threat_weight == 5000

\* the body of heuristic_1's direction loop for the stone at c
H1Dir(g, c, d) ==
    LET player == g.grid[c]
        count == AxisCount(g.grid, g.size, c[1], c[2], d, player)
        w == IF 2 <= count /\ count <= 5 THEN 10 * weights(count) ELSE 0
    IN  IF player = g.ai_player THEN w ELSE -w

\* the body of heuristic_2's direction loop for the stone at c
H2Dir(g, c, d) ==
    LET player == g.grid[c]
        count == AxisCount(g.grid, g.size, c[1], c[2], d, player)
        w == IF 2 <= count /\ count <= 5 THEN 10 * weights(count) ELSE 0
        end1 == <<c[1] + d[1] * count, c[2] + d[2] * count>>
        end2 == <<c[1] - d[1] * count, c[2] - d[2] * count>>
        threat_detected ==
            count = 5 /\
            \/ InBounds(g.size, end1[1], end1[2]) /\ g.grid[end1] = "."
            \/ InBounds(g.size, end2[1], end2[2]) /\ g.grid[end2] = "."
        t == IF threat_detected THEN 10 * threat_weight ELSE 0
    IN  IF player = g.ai_player THEN w + t ELSE -(w + t)

\* what the stone at c adds to heuristic_1's score
H1Cell(g, c) ==
    H1Dir(g, c, directions[1]) + H1Dir(g, c, directions[2])
  + H1Dir(g, c, directions[3]) + H1Dir(g, c, directions[4])

\* H2Cell adding the centre bonus whatever the colour of the stone
H2Cell_bonus(g, c) ==
    LET center == g.size \div 2
        distance_from_center == Abs(c[1] - center) + Abs(c[2] - center)
    IN  (g.size - distance_from_center)
      + H2Dir(g, c, directions[1]) + H2Dir(g, c, directions[2])
      + H2Dir(g, c, directions[3]) + H2Dir(g, c, directions[4])

\* what the stone at c adds to heuristic_2's score
H2Cell(g, c) ==
    LET center == g.size \div 2
        distance_from_center == Abs(c[1] - center) + Abs(c[2] - center)
        center_bonus == g.size - distance_from_center
    IN  (IF g.grid[c] = g.ai_player THEN center_bonus ELSE -center_bonus)
      + H2Dir(g, c, directions[1]) + H2Dir(g, c, directions[2])
      + H2Dir(g, c, directions[3]) + H2Dir(g, c, directions[4])

\* the cells the `for i, for j` loops do not skip
Stones(g) == {c \in Cells(g.size) : g.grid[c] # "."}

RECURSIVE SumOver(_, _)
SumOver(S, f) ==
    IF S = {} THEN 0
    ELSE LET c == CHOOSE c \in S : TRUE
         IN  f[c] + SumOver(S \ {c}, f)

heuristic_1(g) == SumOver(Stones(g), [c \in Stones(g) |-> H1Cell(g, c)])

heuristic_2(g) == SumOver(Stones(g), [c \in Stones(g) |-> H2Cell(g, c)])

\* evaluate_position scoring for the side to move instead of ai_player
evaluate_position_mover(g) ==
    IF g.heuristic = "heuristic_2"
    THEN heuristic_2([g EXCEPT !.ai_player = g.current_player])
    ELSE heuristic_1([g EXCEPT !.ai_player = g.current_player])

\* Connect6Game.evaluate_position
evaluate_position(g) ==
    IF g.heuristic = "heuristic_1" THEN heuristic_1(g)
    ELSE IF g.heuristic = "heuristic_2" THEN heuristic_2(g)
    ELSE heuristic_1(g)

\* the board part of make_move_copy's loop: the child's grid
RECURSIVE CopyGrid(_, _, _, _)
CopyGrid(g, moves, k, player) ==
    IF k > Len(moves) THEN g.grid
    ELSE CopyGrid([size |-> g.size,
                   grid |-> place_move(g, moves[k][1], moves[k][2], player)],
                  moves, k + 1, player)

\* Connect6Game.make_move_copy: the child game
make_move_copy(g, moves, player) ==
    LET placed == {moves[i] : i \in 1 .. Len(moves)}
    IN  [ size |-> g.size,
          grid |-> CopyGrid(g, moves, 1, player),
          current_player |-> IF g.first_move THEN player ELSE OtherPlayer(player),
          first_move |-> FALSE,
          human_player |-> g.human_player,
          ai_player |-> g.ai_player,
          ai_algorithm |-> g.ai_algorithm,
          heuristic |-> g.heuristic,
          last_row |-> IF Len(moves) > 0 THEN moves[Len(moves)][1] ELSE NoneVal,
          last_col |-> IF Len(moves) > 0 THEN moves[Len(moves)][2] ELSE NoneVal,
          last_human_moves |-> IF player = g.human_player THEN placed ELSE {},
          available_moves |-> g.available_moves \ placed ]

\* ------------------------------------------------------ Python containers
\* list(a_set): CPython fixes no iteration order for a set; the order is an
\* input `ord` of each top-level call, one of Orders.  Rank is the position
\* of a coordinate in that order.
Orders == {"rowmajor", "reverse"}

Rank(size, ord, c) ==
    IF ord = "rowmajor" THEN c[1] * size + c[2]
    ELSE size * size - 1 - (c[1] * size + c[2])

\* the elements of S by ascending key, key a one-to-one table over S
SortByKey(S, key) ==
    LET place == Table([c \in S |-> 1 + Cardinality({e \in S : key[e] < key[c]})])
    IN  Table([i \in 1 .. Cardinality(S) |-> CHOOSE c \in S : place[c] = i])

SetToList(S, size, ord) == SortByKey(S, Table([c \in S |-> Rank(size, ord, c)]))

\* sorted(a_set_of_coordinates): ascending (x, y)
sorted(S, size) == SetToList(S, size, "rowmajor")

\* a_list[:n]
Take(seq, n) == SubSeq(seq, 1, Min2(n, Len(seq)))

SeqToSet(seq) == {seq[i] : i \in 1 .. Len(seq)}

\* the first element of S in the order ord
FirstOf(S, size, ord) ==
    CHOOSE c \in S : \A e \in S : Rank(size, ord, c) <= Rank(size, ord, e)

\* Connect6Game.get_available_moves
get_available_moves(g, ord) == SetToList(g.available_moves, g.size, ord)

\* --------------------------------------------------------------- minimax.py
_chebyshev(a, b) == Max2(Abs(a[1] - b[1]), Abs(a[2] - b[2]))

\* get_candidate_moves without its two `return sorted(avail)` exits
get_candidate_moves_near_only(g, radius) ==
    sorted({c \in g.available_moves : \E o \in Stones(g) : _chebyshev(c, o) <= radius},
           g.size)

get_candidate_moves(g, radius) ==
    LET occupied == Stones(g)
        avail == g.available_moves
        candidates == {c \in avail : \E o \in occupied : _chebyshev(c, o) <= radius}
    IN  IF occupied = {} THEN sorted(avail, g.size)
        ELSE IF candidates = {} THEN sorted(avail, g.size)
        ELSE sorted(candidates, g.size)

\* the `origins` set built from last_human_moves or last_row/last_col
Origins(g) ==
    IF g.last_human_moves # {} THEN g.last_human_moves
    ELSE IF g.last_row # NoneVal /\ g.last_col # NoneVal THEN {<<g.last_row, g.last_col>>}
    ELSE {}

get_candidate_moves_near_last_human(g, radius) ==
    LET origins == Origins(g)
    IN  IF origins = {} THEN {}
        ELSE {c \in g.available_moves : \E o \in origins : _chebyshev(c, o) <= radius}

board_state_key(g) ==
    [grid |-> g.grid, current_player |-> g.current_player, first_move |-> g.first_move]

is_win_after_placement(sim_game, coord) == check_winner(sim_game, coord[1], coord[2])

\* simulate: the child of make_move_copy (a child served from _SIM_CACHE has the
\* same grid, available_moves, current_player and first_move: the key fixes them)
simulate(g, moves, player) == make_move_copy(g, moves, player)

\* the board of simulate's child, all that is_win_after_placement reads
SimBoard(g, moves, player) == [size |-> g.size, grid |-> CopyGrid(g, moves, 1, player)]

\* _PROBE_CACHE is a set of <<board_state_key, score>> entries, one per key.
\* probe_score_cached: the score served for the game g
probe_score_cached(cache, g) ==
    LET bk == board_state_key(g)
        found == {e \in cache : e[1] = bk}
    IN  IF found # {} THEN (CHOOSE e \in found : TRUE)[2] ELSE evaluate_position(g)

\* probe_score_cached: the cache after serving the games of `children`
ProbeCacheAfter(cache, children) ==
    LET keys == {e[1] : e \in cache}
    IN  cache \cup {<<board_state_key(ch), evaluate_position(ch)>> :
                       ch \in {ch \in children : board_state_key(ch) \notin keys}}

_clamp_for_ordering(v) ==
    IF v > 10 * ORDER_LIMIT THEN 10 * ORDER_LIMIT
    ELSE IF v < -(10 * ORDER_LIMIT) THEN -(10 * ORDER_LIMIT)
    ELSE v

\* float('inf') as a distance
FarAway == 1000000

_dist_to_orig(g, c) ==
    LET origins == Origins(g)
    IN  IF origins = {} THEN FarAway
        ELSE CHOOSE d \in {_chebyshev(c, o) : o \in origins} :
                 \A o \in origins : d <= _chebyshev(c, o)

\* tuple comparison (d, -ps_order, ps, c) < (d', -ps_order', ps', c')
TupleLess(s, t) ==
    \/ s[1] < t[1]
    \/ s[1] = t[1] /\ s[2] < t[2]
    \/ s[1] = t[1] /\ s[2] = t[2] /\ s[3] < t[3]
    \/ s[1] = t[1] /\ s[2] = t[2] /\ s[3] = t[3] /\ s[4][1] < t[4][1]
    \/ s[1] = t[1] /\ s[2] = t[2] /\ s[3] = t[3] /\ s[4][1] = t[4][1] /\ s[4][2] < t[4][2]

\* scored.sort(): ascending
SortTuples(S) ==
    LET place == Table([s \in S |-> 1 + Cardinality({t \in S : TupleLess(t, s)})])
    IN  Table([i \in 1 .. Cardinality(S) |-> CHOOSE s \in S : place[s] = i])

\* a and b lie on one row, column or diagonal
OnAxis(a, b) ==
    \/ a[1] = b[1]
    \/ a[2] = b[2]
    \/ a[1] - b[1] = a[2] - b[2]
    \/ a[1] - b[1] = b[2] - a[2]

\* is_win_after_placement(child_ab, a) or is_win_after_placement(child_ab, b)
PairWins(g, a, b, player) ==
    LET child_ab == SimBoard(g, <<a, b>>, player)
    IN  is_win_after_placement(child_ab, a) \/ is_win_after_placement(child_ab, b)

\* is_win_after_placement(simulate(game, [m], player), m)
StoneWins(g, m, player) == is_win_after_placement(SimBoard(g, <<m>>, player), m)

\* minimax.recurse: [exc, score, moves].  Its first statement is the draw
\* test; what follows it runs only when is_draw returns False, which it
\* never does (it returns True or raises), so the expansion of the node is
\* not entered and only the leaf value stands for it.
recurse(node_game, depth_left, maximizing, cache) ==
    LET draw == is_draw(node_game)
    IN  IF draw.exc # "" THEN [exc |-> draw.exc, score |-> 0, moves |-> << >>]
        ELSE IF draw.val THEN [exc |-> "", score |-> 0, moves |-> << >>]
        ELSE [exc |-> "", score |-> probe_score_cached(cache, node_game), moves |-> << >>]

\* candidates = [t[3] for t in scored]
Column(seq, k) == Table([i \in 1 .. Len(seq) |-> seq[i][k]])

\* candidates[:max_candidates] when there are more than max_candidates
Truncate(seq, n) == IF Len(seq) > n THEN Take(seq, n) ELSE seq

\* `candidates = avail` when the candidate list is empty
OrAvail(candidates, g, ord) ==
    IF candidates = << >> THEN get_available_moves(g, ord) ELSE candidates

\* the smallest index of a non-empty set of indices
FirstIndex(S) == CHOOSE i \in S : \A j \in S : i <= j

\* the candidate list before it is scored
root_candidates(g, ord) ==
    LET focused_candidates == get_candidate_moves_near_last_human(g, HUMAN_FOCUS_RADIUS)
    IN  IF focused_candidates # {}
        THEN OrAvail(sorted(focused_candidates \cap g.available_moves, g.size), g, ord)
        ELSE OrAvail(SelectSeq(get_candidate_moves(g, DEFAULT_RADIUS),
                               LAMBDA c : c \in g.available_moves), g, ord)

\* scored.sort() and the truncation, ps the table of probe scores
order_candidates(g, ps) ==
    Truncate(Column(SortTuples({<<_dist_to_orig(g, c), -_clamp_for_ordering(ps[c]), ps[c], c>> :
                                   c \in DOMAIN ps}), 4),
             MAX_CANDIDATES)

\* every pair (a, b) of available cells with which `player` wins, given that
\* no single stone of `player` wins: the run of a winning pair then holds both
\* its cells, so only pairs on one axis are simulated, each once for its two
\* orders
HalfPairs(g, ord, player) ==
    {pr \in g.available_moves \X g.available_moves :
        /\ Rank(g.size, ord, pr[1]) < Rank(g.size, ord, pr[2])
        /\ OnAxis(pr[1], pr[2])
        /\ PairWins(g, pr[1], pr[2], player)}

Symmetric(P) == P \cup {<<pr[2], pr[1]>> : pr \in P}

WinPairs(g, ord, player) == Symmetric(HalfPairs(g, ord, player))

\* the pair added by a scan `for a in avail: for b in ...: break` over the
\* winning pairs P: the first a that has a winning b, with its first b
FirstPair(P, size, ord) ==
    LET a == FirstOf({pr[1] : pr \in P}, size, ord)
    IN  {a, FirstOf({pr[2] : pr \in {q \in P : q[1] = a}}, size, ord)}

\* blocking_moves after the four detection stages, pairs the set of pairs
\* with which the opponent wins
blocking_moves(g, ord, candSet, pairs) ==
    LET \* opponent wins with one stone
        blocking1 == {b \in g.available_moves :
                         StoneWins(g, b, OtherPlayer(g.current_player))}
        \* opponent wins with a pair of candidates: every such pair is added
        blocking2 == UNION {{pr[1], pr[2]} :
                               pr \in {q \in pairs : q[1] \in candSet /\ q[2] \in candSet}}
        \* targeted scan: b near a or near the origins
        near == {pr \in pairs :
                    \/ _chebyshev(pr[2], pr[1]) <= HUMAN_FOCUS_RADIUS
                    \/ \E o \in Origins(g) : _chebyshev(pr[2], o) <= HUMAN_FOCUS_RADIUS}
    IN  IF blocking1 # {} THEN blocking1
        ELSE IF blocking2 # {} THEN blocking2
        ELSE IF near # {} THEN FirstPair(near, g.size, ord)
        \* full pair scan on moderate boards
        ELSE IF Cardinality(g.available_moves) > 120 \/ pairs = {} THEN {}
        ELSE FirstPair(pairs, g.size, ord)

\* minimax from `return INF, [a, second]`: a the first winning candidate
minimax_win(g, ord, cache, candidates, a) ==
    [score |-> INF,
     moves |-> <<a, FirstOf(IF \E i \in 1 .. Len(candidates) : candidates[i] # a
                            THEN {SelectSeq(candidates, LAMBDA b : b # a)[1]}
                            ELSE g.available_moves \ {a}, g.size, ord)>>,
     exc |-> "", cache |-> cache]

\* minimax from the root call of recurse on, r what recurse produced
minimax_search(g, ord, cache, r) ==
    IF r.exc # "" THEN [score |-> 0, moves |-> << >>, exc |-> r.exc, cache |-> cache]
    ELSE IF r.moves = << >> \/ Len(r.moves) # 2
              \/ \E i \in 1 .. Len(r.moves) : r.moves[i] \notin g.available_moves
    THEN [score |-> r.score, moves |-> Take(get_available_moves(g, ord), 2),
          exc |-> "", cache |-> cache]
    ELSE [score |-> r.score, moves |-> r.moves, exc |-> "", cache |-> cache]

\* minimax from "Step 3" on, winners the indices of the winning candidates
minimax_step3(g, depth, maximizing_player, ord, cache, candidates, winners) ==
    IF winners # {}
    THEN minimax_win(g, ord, cache, candidates, candidates[FirstIndex(winners)])
    ELSE minimax_search(g, ord, cache, recurse(g, depth, maximizing_player, cache))

\* minimax from `if blocking_moves:` on
minimax_block(g, depth, maximizing_player, ord, cache, candidates, blocking) ==
    IF blocking # {}
    THEN [score |-> 0, moves |-> Take(sorted(blocking, g.size), 2),
          exc |-> "", cache |-> cache]
    ELSE minimax_step3(g, depth, maximizing_player, ord, cache, candidates,
                       {i \in 1 .. Len(candidates) :
                           StoneWins(g, candidates[i], g.current_player)})

\* minimax from the blocking detection on, candidates ordered and truncated
minimax_ordered(g, depth, maximizing_player, ord, cache, candidates) ==
    minimax_block(g, depth, maximizing_player, ord, cache, candidates,
                  blocking_moves(g, ord, SeqToSet(candidates),
                                 WinPairs(g, ord, OtherPlayer(g.current_player))))

\* minimax from the pre-scoring loop on, child the table of the single-stone
\* children of the candidates
minimax_scored(g, depth, maximizing_player, ord, cache, child) ==
    minimax_ordered(g, depth, maximizing_player, ord,
                    ProbeCacheAfter(cache, {child[c] : c \in DOMAIN child}),
                    order_candidates(g, Table([c \in DOMAIN child |->
                                                  probe_score_cached(cache, child[c])])))

\* minimax from `if immediate_blockers:` on
minimax_blockers(g, depth, maximizing_player, ord, cache, immediate_blockers) ==
    IF immediate_blockers # {}
    THEN [score |-> 0, moves |-> Take(sorted(immediate_blockers, g.size), 2),
          exc |-> "", cache |-> cache]
    ELSE minimax_scored(g, depth, maximizing_player, ord, cache,
                        Table([c \in SeqToSet(root_candidates(g, ord)) |->
                                  simulate(g, <<c>>, g.current_player)]))

\* minimax(game, depth, maximizing_player): [score, moves, exc, cache]
minimax(g, depth, maximizing_player, ord, cache) ==
    IF Cardinality(g.available_moves) <= 2
    THEN [score |-> 0, moves |-> Take(get_available_moves(g, ord), 2),
          exc |-> "", cache |-> cache]
    ELSE minimax_blockers(g, depth, maximizing_player, ord, cache,
                          {m \in g.available_moves :
                              StoneWins(g, m, OtherPlayer(g.current_player))})

\* ------------------------------------------------------------ alpha_beta.py
\* math.inf
MathInf == 2000000000

\* the direction loop of check_threat_at_position from direction k on; it
\* returns as soon as max_consecutive reaches 6
RECURSIVE ThreatScan(_, _, _, _, _, _, _)
ThreatScan(grid, size, x, y, player, k, max_consecutive) ==
    IF k > 4 THEN max_consecutive
    ELSE LET count == AxisCount(grid, size, x, y, directions[k], player)
             m == Max2(max_consecutive, count)
         IN  IF m >= 6 THEN m ELSE ThreatScan(grid, size, x, y, player, k + 1, m)

\* AlphaBetaPruning.check_threat_at_position: the cell is set to `player`
\* for the count and restored before every return
check_threat_at_position(g, x, y, player) ==
    ThreatScan(g.grid, g.size, x, y, player, 1, 0)

\* AlphaBetaPruning.set_stone
set_stone(g, x, y, stone) ==
    _remove_move([g EXCEPT !.grid[<<x, y>>] = stone, !.last_row = x, !.last_col = y], x, y)

\* AlphaBetaPruning.remove_stone
remove_stone(g, x, y) == _add_move([g EXCEPT !.grid[<<x, y>>] = EMPTY], x, y)

\* the list a move is appended to: 1 winning_moves, 2 critical_blocks,
\* 3 important_blocks, 4 strong_attacks, 5 good_attacks, 6 decent_moves
Category(my_threat, opp_threat) ==
    IF my_threat >= 6 THEN 1
    ELSE IF opp_threat >= 5 THEN 2
    ELSE IF opp_threat >= 4 THEN 3
    ELSE IF my_threat >= 5 THEN 4
    ELSE IF my_threat >= 4 THEN 5
    ELSE 6

\* the value its list is sorted by (winning_moves is not sorted)
SortValue(category, my_threat, opp_threat) ==
    IF category = 1 THEN 0
    ELSE IF category \in {2, 3} THEN opp_threat
    ELSE IF category \in {4, 5} THEN my_threat
    ELSE my_threat * 10 + opp_threat * 5

\* the place of a move in the concatenated lists: by list, then by
\* descending value, then (list.sort is stable) by its place in moves_to_check
Place(my_threat, opp_threat, rank) ==
    Category(my_threat, opp_threat) * 1000000
  + (500 - SortValue(Category(my_threat, opp_threat), my_threat, opp_threat)) * 1000
  + rank

\* the cells within 3 of a stone
Relevant(g) ==
    {c \in Cells(g.size) :
        g.grid[c] = EMPTY /\ \E o \in Stones(g) : _chebyshev(c, o) <= RELEVANT_RADIUS}

\* list(relevant) if relevant else all_moves, as a set: its order is `ord`
MovesToCheck(relevant, all_moves) ==
    IF relevant # {} THEN relevant ELSE all_moves

\* get_prioritized_moves from the classification loop on
prioritize(g, limit, ord, moves_to_check) ==
    Take(SortByKey(moves_to_check,
                   Table([m \in moves_to_check |->
                             Place(check_threat_at_position(g, m[1], m[2],
                                       IF g.current_player = AI THEN AI ELSE PLAYER),
                                   check_threat_at_position(g, m[1], m[2],
                                       IF g.current_player = AI THEN PLAYER ELSE AI),
                                   Rank(g.size, ord, m))])),
         limit)

\* AlphaBetaPruning.get_prioritized_moves
get_prioritized_moves(g, limit, ord) ==
    IF g.available_moves = {} THEN << >>
    ELSE IF Cardinality(g.available_moves) >= g.size * g.size - 5
    THEN Take(SelectSeq(get_available_moves(g, ord),
                        LAMBDA m : Abs(m[1] - g.size \div 2) <= CENTER_WINDOW
                                   /\ Abs(m[2] - g.size \div 2) <= CENTER_WINDOW), limit)
    ELSE prioritize(g, limit, ord, MovesToCheck(Relevant(g), g.available_moves))

\* AlphaBetaPruning.__evaluate_board
evaluate_board(g, heur, win, draw) ==
    IF win
    THEN LET winner == g.grid[<<g.last_row, g.last_col>>]
         IN  IF winner = AI THEN MathInf ELSE -MathInf
    ELSE IF draw THEN 0
    ELSE IF heur = EVAL1 THEN heuristic_1(g)
    ELSE heuristic_2(g)

\* AlphaBetaPruning.alpha_beta: [exc, score].  is_draw returns True or
\* raises, so the terminal test holds whenever it is reached and neither
\* __max_node nor __min_node is entered.
alpha_beta(g, heur, depth, alpha, beta, maximizing_player) ==
    LET win == IF g.last_row # NoneVal /\ g.last_col # NoneVal
               THEN check_winner(g, g.last_row, g.last_col)
               ELSE FALSE
        draw == is_draw(g)
    IN  IF draw.exc # "" THEN [exc |-> draw.exc, score |-> 0]
        ELSE [exc |-> "", score |-> evaluate_board(g, heur, win, draw.val)]

\* the inner loop body of the "normal alpha-beta search" once alpha_beta
\* has returned r for the game g2 with both stones set: [done, game, exc,
\* alpha, best_score, best_moves]
RootStep(g2, moves, i, j, alpha, best_score, best_moves, r) ==
    IF r.exc # ""
    THEN [done |-> TRUE, game |-> g2, exc |-> r.exc, alpha |-> alpha,
          best_score |-> best_score, best_moves |-> best_moves]
    ELSE [done |-> FALSE,
          game |-> [remove_stone(g2, moves[j][1], moves[j][2])
                       EXCEPT !.last_row = moves[i][1], !.last_col = moves[i][2]],
          exc |-> "",
          alpha |-> Max2(alpha, r.score),
          best_score |-> IF r.score > best_score THEN r.score ELSE best_score,
          best_moves |-> IF r.score > best_score THEN <<moves[i], moves[j]>>
                         ELSE best_moves]

\* the "normal alpha-beta search" loops of find_best_move, at outer index i
\* and inner index j (j = 0: the outer iteration is about to set its stone)
RECURSIVE RootLoop(_, _, _, _, _, _, _, _, _)
RECURSIVE RootNext(_, _, _, _, _, _)
RootLoop(g, heur, max_depth, moves, i, j, alpha, best_score, best_moves) ==
    IF i > Min2(Len(moves), AB_LIMIT)
    THEN [game |-> g, exc |-> "", best_moves |-> best_moves]
    ELSE IF j = 0
    THEN RootLoop(set_stone(g, moves[i][1], moves[i][2], AI), heur, max_depth, moves,
                  i, i + 1, alpha, best_score, best_moves)
    ELSE IF j > Min2(Len(moves), AB_LIMIT)
    THEN RootLoop(remove_stone(g, moves[i][1], moves[i][2]), heur, max_depth, moves,
                  i + 1, 0, alpha, best_score, best_moves)
    ELSE RootNext(heur, max_depth, moves, i, j,
                  RootStep(set_stone(g, moves[j][1], moves[j][2], AI), moves, i, j,
                           alpha, best_score, best_moves,
                           alpha_beta(set_stone(g, moves[j][1], moves[j][2], AI), heur,
                                      max_depth - 1, alpha, MathInf, FALSE)))

\* the loops after the step s
RootNext(heur, max_depth, moves, i, j, s) ==
    IF s.done THEN [game |-> s.game, exc |-> s.exc, best_moves |-> s.best_moves]
    ELSE RootLoop(s.game, heur, max_depth, moves, i, j + 1, s.alpha, s.best_score,
                  s.best_moves)

\* the "immediate win check" loops of find_best_move from outer index i on:
\* [found, game, ret, exc]
RECURSIVE WinLoop(_, _, _)
RECURSIVE WinInner(_, _, _, _)
WinLoop(g, moves, i) ==
    IF i > Len(moves) THEN [found |-> FALSE, game |-> g, ret |-> << >>, exc |-> ""]
    ELSE IF check_threat_at_position(g, moves[i][1], moves[i][2], AI) >= 6
    THEN IF moves[1] # moves[i]
         THEN [found |-> TRUE, game |-> g, ret |-> <<moves[i], moves[1]>>, exc |-> ""]
         ELSE IF Len(moves) >= 2
         THEN [found |-> TRUE, game |-> g, ret |-> <<moves[i], moves[2]>>, exc |-> ""]
         ELSE [found |-> TRUE, game |-> g, ret |-> << >>, exc |-> "IndexError"]
    ELSE WinInner(set_stone(g, moves[i][1], moves[i][2], AI), moves, i,
                  {j \in i + 1 .. Len(moves) :
                      check_threat_at_position(set_stone(g, moves[i][1], moves[i][2], AI),
                                               moves[j][1], moves[j][2], AI) >= 6})

\* the inner loop over j for the game gi with moves[i] set, hits the j that win
WinInner(gi, moves, i, hits) ==
    IF hits # {}
    THEN [found |-> TRUE, game |-> remove_stone(gi, moves[i][1], moves[i][2]),
          ret |-> <<moves[i], moves[FirstIndex(hits)]>>, exc |-> ""]
    ELSE WinLoop(remove_stone(gi, moves[i][1], moves[i][2]), moves, i + 1)

\* critical_threats after its sort, as indices into moves[:15]
critical_threats(g, top) ==
    SortByKey({k \in 1 .. Len(top) :
                  check_threat_at_position(g, top[k][1], top[k][2], PLAYER) >= 5},
              Table([k \in 1 .. Len(top) |->
                        (500 - check_threat_at_position(g, top[k][1], top[k][2], PLAYER))
                        * 1000 + k]))

\* find_best_move from the end of the search loops on
find_best_move_result(moves, loop) ==
    IF loop.exc # "" THEN [game |-> loop.game, ret |-> << >>, exc |-> loop.exc]
    ELSE IF loop.best_moves # << >>
    THEN [game |-> loop.game, ret |-> loop.best_moves, exc |-> ""]
    ELSE IF Len(moves) < 2 THEN [game |-> loop.game, ret |-> << >>, exc |-> "IndexError"]
    ELSE [game |-> loop.game, ret |-> <<moves[1], moves[2]>>, exc |-> ""]

\* find_best_move from `if critical_threats:` on, ct the sorted indices
find_best_move_block(g, heur, max_depth, moves, ct) ==
    IF ct # << >>
    THEN IF Len(ct) > 1
         THEN [game |-> g, ret |-> <<moves[ct[1]], moves[ct[2]]>>, exc |-> ""]
         ELSE IF Len(moves) < 2
         THEN [game |-> g, ret |-> << >>, exc |-> "IndexError"]
         ELSE IF moves[2] # moves[ct[1]]
         THEN [game |-> g, ret |-> <<moves[ct[1]], moves[2]>>, exc |-> ""]
         ELSE IF Len(moves) < 3
         THEN [game |-> g, ret |-> << >>, exc |-> "IndexError"]
         ELSE [game |-> g, ret |-> <<moves[ct[1]], moves[3]>>, exc |-> ""]
    ELSE find_best_move_result(moves,
             RootLoop(g, heur, max_depth, moves, 1, 0, -MathInf, -MathInf, << >>))

\* find_best_move from the end of the immediate win check on, w its outcome
find_best_move_win(heur, max_depth, moves, w) ==
    IF w.found THEN [game |-> w.game, ret |-> w.ret, exc |-> w.exc]
    ELSE find_best_move_block(w.game, heur, max_depth, moves,
                              critical_threats(w.game, Take(moves, AB_TOP)))

\* find_best_move from the immediate win check on
find_best_move_moves(g, heur, max_depth, moves) ==
    find_best_move_win(heur, max_depth, moves, WinLoop(g, moves, 1))

\* AlphaBetaPruning.find_best_move: [game, ret, exc]
find_best_move(g, heur, max_depth, ord) ==
    IF g.first_move
    THEN [game |-> g, ret |-> << <<g.size \div 2, g.size \div 2>> >>, exc |-> ""]
    ELSE find_best_move_moves(g, heur, max_depth, get_prioritized_moves(g, AB_LIMIT, ord))

\* `best_moves and len(best_moves) == required_moves and all(move in
\* available_moves ...)`
Usable(best_moves, required_moves, available_moves) ==
    /\ best_moves # << >>
    /\ Len(best_moves) = required_moves
    /\ \A k \in 1 .. Len(best_moves) : best_moves[k] \in SeqToSet(available_moves)

\* get_ai_move from the return of the algorithm on: result is what it
\* returned or raised, g the game it left
get_ai_move_result(g, required_moves, available_moves, cache, result, exception) ==
    IF exception = "" /\ Usable(result, required_moves, available_moves)
    THEN [game |-> g, ret |-> result, cache |-> cache]
    ELSE [game |-> g, ret |-> Take(available_moves, required_moves), cache |-> cache]

\* get_ai_move with the minimax algorithm, r what minimax returned
get_ai_move_minimax(g, required_moves, available_moves, r) ==
    get_ai_move_result(g, required_moves, available_moves, r.cache, r.moves, r.exc)

\* get_ai_move with the alpha_beta algorithm, r what find_best_move returned
get_ai_move_alpha_beta(required_moves, available_moves, cache, r) ==
    get_ai_move_result(r.game, required_moves, available_moves, cache, r.ret, r.exc)

\* Connect6Game.get_ai_move: [game, ret, cache]
get_ai_move(g, depth, ord, cache) ==
    IF g.available_moves = {} THEN [game |-> g, ret |-> << >>, cache |-> cache]
    ELSE IF g.ai_algorithm = "minimax"
    THEN get_ai_move_minimax(g, IF g.first_move THEN 1 ELSE 2, get_available_moves(g, ord),
                             minimax(g, depth, TRUE, ord, cache))
    ELSE IF g.ai_algorithm = "alpha_beta"
    THEN get_ai_move_alpha_beta(IF g.first_move THEN 1 ELSE 2, get_available_moves(g, ord),
                                cache, find_best_move(g, g.heuristic, depth, ord))
    ELSE [game |-> g, ret |-> Take(get_available_moves(g, ord), IF g.first_move THEN 1 ELSE 2),
          cache |-> cache]

\* ------------------------------------------------------------ state machine
\* game        the live Connect6Game object
\* probe_cache the module-level _PROBE_CACHE of minimax.py
\* pre         the game as it was when the last call was made
\* op, arg     the last call and its argument (a list of coordinates)
\* ret         the value the last call returned
\* turn        the list the last get_ai_move returned
\* exc         the exception that left the last call ("" when none)
\* reason      the message returned by the last _validate_moves_atomic
\* calls       the number of calls made
\* heap        the objects of the process by identity, where aliasing is
\*             examined (empty elsewhere); `game` is then the live game as
\*             read through it
VARIABLES game, probe_cache, pre, op, arg, ret, turn, exc, reason, calls, heap

vars == <<game, probe_cache, pre, op, arg, ret, turn, exc, reason, calls, heap>>

Sizes == {6, 7}
Algorithms == {"minimax", "alpha_beta"}
Heuristics == {"heuristic_1", "heuristic_2"}
\* the search depths the callers pass
Depths == {1, 2, 3}

\* the cells start, start + d, ..., start + (len - 1) d
Line(start, d, len) ==
    {<<start[1] + k * d[1], start[2] + k * d[2]>> : k \in 0 .. len - 1}

\* a position set up field by field, the way debug_board.py sets one up:
\* stones written into the grid, available_moves rebuilt from the grid,
\* first_move cleared, the side to move assigned
Position(size, XS, OS, cur, algorithm, heur) ==
    LET grid == Table([c \in Cells(size) |->
                          IF c \in XS THEN "X" ELSE IF c \in OS THEN "O" ELSE EMPTY])
    IN  [NewGame(size, algorithm, heur) EXCEPT
            !.grid = grid,
            !.available_moves = {c \in Cells(size) : grid[c] = EMPTY},
            !.first_move = FALSE,
            !.current_player = cur]

\* where the run of direction k starts
Anchor(size, k) ==
    IF k = 1 THEN <<0, 1>> ELSE IF k = 2 THEN <<1, 0>>
    ELSE IF k = 3 THEN <<0, 0>> ELSE <<0, size - 1>>

Scattered == {<<3, 5>>, <<5, 2>>}
RunLens == {4, 5, 6}

\* one run of len stones along direction k, two stones of the other colour
RunPosition(size, k, len) ==
    LET run == Line(Anchor(size, k), directions[k], len)
        cur == IF size = 6 THEN "X" ELSE "O"
    IN  IF k \in {1, 3}
        THEN Position(size, run, Scattered, cur, "minimax", "heuristic_1")
        ELSE Position(size, Scattered, run, cur, "minimax", "heuristic_1")

\* a board filled in 2 x 2 blocks of alternating colour, but for `holes`
FilledPosition(size, holes) ==
    LET filled == Cells(size) \ holes
        XS == {c \in filled : ((c[1] \div 2) + (c[2] \div 2)) % 2 = 0}
    IN  Position(size, XS, filled \ XS, "O", "minimax", "heuristic_1")

HoleSets == {{}, {<<5, 5>>}, {<<5, 5>>, <<0, 0>>}}

RulesPositions ==
    {NewGame(size, "minimax", "heuristic_1") : size \in Sizes}
    \cup {RunPosition(size, k, len) : size \in Sizes, k \in 1 .. 4, len \in RunLens}
    \cup {FilledPosition(size, holes) : size \in Sizes, holes \in HoleSets}

\* the first cell of S in row-major order
FirstCell(S, size) == FirstOf(S, size, "rowmajor")

\* the coordinates the callers are tried with: one off the board, one
\* occupied cell, an empty cell where the side to move completes six (the
\* first empty cell when there is none) and the last empty cell
InputCells(g) ==
    LET occupied == Stones(g)
        empties == Cells(g.size) \ occupied
        wins == {c \in empties : StoneWins(g, c, g.current_player)}
    IN  {<<g.size, 0>>}
        \cup (IF occupied = {} THEN {} ELSE {FirstCell(occupied, g.size)})
        \cup (IF wins # {} THEN {FirstCell(wins, g.size)}
              ELSE IF empties # {} THEN {FirstCell(empties, g.size)} ELSE {})
        \cup (IF empties = {} THEN {} ELSE {FirstOf(empties, g.size, "reverse")})

\* the turns the callers are tried with: every list of at most two input
\* cells, and lists of three
InputTurns(g) ==
    LET IC == InputCells(g)
    IN  {<< >>} \cup {<<a>> : a \in IC} \cup {<<a, b>> : a \in IC, b \in IC}
        \cup {<<a, b, b>> : a \in IC, b \in IC \cap g.available_moves}

Init ==
    /\ game \in RulesPositions
    /\ probe_cache = {}
    /\ pre = game
    /\ op = "init"
    /\ arg = << >>
    /\ ret = FALSE
    /\ turn = << >>
    /\ exc = ""
    /\ reason = ""
    /\ calls = 0
    /\ heap = << >>

\* game.play_turn(moves), the call counted against `bound`
PlayTurnWithin(moves, bound) ==
    /\ calls < bound
    /\ \E r \in {play_turn(game, moves)} :
           /\ game' = r.game
           /\ ret' = r.ret
           /\ exc' = r.exc
    /\ pre' = game
    /\ op' = "play_turn"
    /\ arg' = moves
    /\ turn' = << >>
    /\ reason' = ""
    /\ calls' = calls + 1
    /\ UNCHANGED <<probe_cache, heap>>

\* game.play_turn(moves)
PlayTurn(moves) == PlayTurnWithin(moves, MaxCalls)

\* game.check_winner(x, y)
CheckWinner(x, y) ==
    /\ calls < MaxCalls
    /\ ret' = check_winner(game, x, y)
    /\ pre' = game
    /\ op' = "check_winner"
    /\ arg' = << <<x, y>> >>
    /\ turn' = << >>
    /\ exc' = ""
    /\ reason' = ""
    /\ calls' = calls + 1
    /\ UNCHANGED <<game, probe_cache, heap>>

\* game.is_draw()
IsDraw ==
    /\ calls < MaxCalls
    /\ \E r \in {is_draw(game)} :
           /\ ret' = r.val
           /\ exc' = r.exc
    /\ pre' = game
    /\ op' = "is_draw"
    /\ arg' = << >>
    /\ turn' = << >>
    /\ reason' = ""
    /\ calls' = calls + 1
    /\ UNCHANGED <<game, probe_cache, heap>>

\* game._validate_moves_atomic(moves)
ValidateMoves(moves) ==
    /\ calls < MaxCalls
    /\ \E r \in {_validate_moves_atomic(game, moves)} :
           /\ ret' = r.ok
           /\ reason' = r.reason
    /\ pre' = game
    /\ op' = "_validate_moves_atomic"
    /\ arg' = moves
    /\ turn' = << >>
    /\ exc' = ""
    /\ calls' = calls + 1
    /\ UNCHANGED <<game, probe_cache, heap>>

Next ==
    \/ \E moves \in InputTurns(game) : PlayTurn(moves)
    \/ \E c \in InputCells(game) : CheckWinner(c[1], c[2])
    \/ IsDraw
    \/ \E moves \in InputTurns(game) : ValidateMoves(moves)

Spec == Init /\ [][Next]_vars

\* ---------------------------------------------------- the engine's positions
\* where the engine's own run of direction k starts
AnchorO(size, k) ==
    IF k = 1 THEN <<0, 3>> ELSE IF k = 2 THEN <<3, 0>>
    ELSE IF k = 3 THEN <<0, 1>> ELSE <<0, size - 2>>

\* a run of len stones along direction k from `anchor`; on the 7 x 7 board the
\* run starts one cell in from the edge
RunFrom(size, anchor, k, len) ==
    LET off == IF size = 7 THEN 1 ELSE 0
        start == <<anchor[1] + off * directions[k][1], anchor[2] + off * directions[k][2]>>
    IN  Line(start, directions[k], len)

EngineRunLens == {0, 4, 5}
EngineDirections == {2, 3}

\* the opponent's run of XL stones and the engine's run of OL stones, the
\* engine ("O") to move
EnginePosition(size, k, XL, OL) ==
    Position(size, RunFrom(size, Anchor(size, k), k, XL),
             RunFrom(size, AnchorO(size, k), k, OL), ai_player,
             "minimax", "heuristic_1")

\* the 9 x 9 board with five opponent stones in row 4, columns 3 to 7
Row4Position ==
    Position(9, Line(<<4, 3>>, <<0, 1>>, 5), {}, ai_player, "minimax", "heuristic_1")

EngineHoleSets == {{<<5, 5>>}, {<<5, 5>>, <<0, 0>>}, {<<5, 5>>, <<0, 0>>, <<2, 3>>}}

EnginePositions ==
    {NewGame(size, "minimax", "heuristic_1") : size \in Sizes}
    \cup {EnginePosition(size, k, rl[1], rl[2]) :
             size \in Sizes, k \in EngineDirections,
             rl \in {r \in EngineRunLens \X EngineRunLens : r[1] + r[2] > 0}}
    \cup {FilledPosition(6, holes) : holes \in EngineHoleSets}
    \cup {Row4Position}

InitAI ==
    /\ game \in EnginePositions
    /\ probe_cache = {}
    /\ pre = game
    /\ op = "init"
    /\ arg = << >>
    /\ ret = FALSE
    /\ turn = << >>
    /\ exc = ""
    /\ reason = ""
    /\ calls = 0
    /\ heap = << >>

\* game.set_ai_config(algorithm, heuristic)
SetAiConfig(algorithm, heur) ==
    /\ op # "set_ai_config"
    /\ game' = set_ai_config(game, algorithm, heur)
    /\ pre' = game
    /\ op' = "set_ai_config"
    /\ arg' = << >>
    /\ ret' = FALSE
    /\ turn' = << >>
    /\ exc' = ""
    /\ reason' = ""
    /\ UNCHANGED <<probe_cache, calls, heap>>

\* game.get_ai_move(depth), the sets of the call iterated in the order ord,
\* while fewer than `bound` calls were made
GetAiMoveWithin(depth, ord, bound) ==
    /\ calls < bound
    /\ \E r \in {get_ai_move(game, depth, ord, probe_cache)} :
           /\ game' = r.game
           /\ turn' = r.ret
           /\ probe_cache' = r.cache
    /\ pre' = game
    /\ op' = "get_ai_move"
    /\ arg' = << >>
    /\ ret' = FALSE
    /\ exc' = ""
    /\ reason' = ""
    /\ calls' = calls + 1
    /\ UNCHANGED heap

GetAiMove(depth, ord) == GetAiMoveWithin(depth, ord, MaxAiCalls)

\* game.play_turn(ai_moves): the caller plays the turn get_ai_move returned
PlayAiTurn ==
    /\ op = "get_ai_move"
    /\ \E r \in {play_turn(game, turn)} :
           /\ game' = r.game
           /\ ret' = r.ret
           /\ exc' = r.exc
    /\ pre' = game
    /\ op' = "play_turn"
    /\ arg' = turn
    /\ turn' = << >>
    /\ reason' = ""
    /\ UNCHANGED <<probe_cache, calls, heap>>

NextAI ==
    \/ \E algorithm \in Algorithms, heur \in Heuristics : SetAiConfig(algorithm, heur)
    \/ \E depth \in Depths, ord \in Orders : GetAiMove(depth, ord)
    \/ PlayAiTurn

SpecAI == InitAI /\ [][NextAI]_vars

\* ---------------------------------------------------- searches one after another
\* the positions the engine is asked about more than once
CachePositions ==
    {NewGame(6, "minimax", "heuristic_1"),
     EnginePosition(7, 2, 4, 0),
     EnginePosition(6, 2, 5, 0),
     EnginePosition(7, 3, 0, 4)}

InitCache ==
    /\ game \in CachePositions
    /\ probe_cache = {}
    /\ pre = game
    /\ op = "init"
    /\ arg = << >>
    /\ ret = FALSE
    /\ turn = << >>
    /\ exc = ""
    /\ reason = ""
    /\ calls = 0
    /\ heap = << >>

\* get_ai_move called again in the same process: _PROBE_CACHE is what the
\* earlier calls left
SearchAgain(depth, ord) == GetAiMoveWithin(depth, ord, MaxSearchCalls)

NextCache ==
    \/ \E algorithm \in Algorithms, heur \in Heuristics : SetAiConfig(algorithm, heur)
    \/ \E depth \in Depths, ord \in Orders : SearchAgain(depth, ord)

SpecCache == InitCache /\ [][NextCache]_vars

\* ------------------------------------------------------------ the evaluators
\* the game g constructed with `ai` as the engine's colour and heur selected
EvalGame(g, ai, heur) ==
    [g EXCEPT !.ai_player = ai, !.human_player = OtherPlayer(ai), !.heuristic = heur]

\* the heuristic names a game is configured with: the two evaluators and a
\* name that is neither
EvalHeuristics == Heuristics \cup {"heuristic_3"}

\* the positions of the rules and of the engine, and the 7 x 7 board with
\* "O" in row 0, columns 0 to 4, shut in by "X" at (0, 5)
EvalPositions ==
    {EvalGame(g, ai, heur) :
        g \in RulesPositions \cup EnginePositions
              \cup {Position(7, {<<0, 5>>}, Line(<<0, 0>>, <<0, 1>>, 5), "O",
                             "minimax", "heuristic_1")},
        ai \in Players, heur \in EvalHeuristics}

InitEval ==
    /\ game \in EvalPositions
    /\ probe_cache = {}
    /\ pre = game
    /\ op = "init"
    /\ arg = << >>
    /\ ret = FALSE
    /\ turn = << >>
    /\ exc = ""
    /\ reason = ""
    /\ calls = 0
    /\ heap = << >>

\* the frame of a call that reads the game and returns a score
ScoreCall(name) ==
    /\ calls < MaxCalls
    /\ pre' = game
    /\ op' = name
    /\ arg' = << >>
    /\ turn' = << >>
    /\ exc' = ""
    /\ reason' = ""
    /\ calls' = calls + 1
    /\ UNCHANGED <<game, probe_cache, heap>>

\* heuristic_1(game)
Heuristic1 == ret' = heuristic_1(game) /\ ScoreCall("heuristic_1")

\* heuristic_2(game)
Heuristic2 == ret' = heuristic_2(game) /\ ScoreCall("heuristic_2")

\* game.evaluate_position()
EvaluatePosition == ret' = evaluate_position(game) /\ ScoreCall("evaluate_position")

NextEval ==
    \/ Heuristic1
    \/ Heuristic2
    \/ EvaluatePosition

SpecEval == InitEval /\ [][NextEval]_vars

\* ------------------------------------------------ the alpha-beta nodes
\* AlphaBetaPruning.alpha_beta with the nodes it calls, on the shared board:
\* [game, exc, score], game the shared board when the call ends.  An
\* exception of the child call leaves the node at once: no handler and no
\* finally clause stands between the recursive call and the caller.
RECURSIVE alpha_beta_node(_, _, _, _, _, _, _)
RECURSIVE NodeLoop(_, _, _, _, _, _, _, _, _, _, _, _, _)
RECURSIVE NodeNext(_, _, _, _, _, _, _, _, _, _, _, _, _)

\* max_score = max(max_score, score) in __max_node, min_score =
\* min(min_score, score) in __min_node
NodeScore(maximizing, score_so_far, score) ==
    IF maximizing THEN Max2(score_so_far, score) ELSE Min2(score_so_far, score)

\* the inner loop body of __max_node (maximizing) and __min_node once the
\* child call has ended with r
NodeNext(heur, depth, alpha, beta, maximizing, ord, moves, i, j, score_so_far, orig_r, orig_c, r) ==
    IF r.exc # "" THEN [game |-> r.game, exc |-> r.exc, score |-> 0]
    ELSE IF (IF maximizing THEN beta <= Max2(alpha, r.score)
                           ELSE Min2(beta, r.score) <= alpha)
    THEN [game |-> [remove_stone(remove_stone(r.game, moves[j][1], moves[j][2]),
                                 moves[i][1], moves[i][2])
                       EXCEPT !.last_row = orig_r, !.last_col = orig_c],
          exc |-> "", score |-> NodeScore(maximizing, score_so_far, r.score)]
    ELSE NodeLoop([remove_stone(r.game, moves[j][1], moves[j][2])
                      EXCEPT !.last_row = moves[i][1], !.last_col = moves[i][2]],
                  heur, depth,
                  IF maximizing THEN Max2(alpha, r.score) ELSE alpha,
                  IF maximizing THEN beta ELSE Min2(beta, r.score),
                  maximizing, ord, moves, i, j + 1,
                  NodeScore(maximizing, score_so_far, r.score), orig_r, orig_c)

\* the loops of __max_node (maximizing) and __min_node at outer index i and
\* inner index j (j = 0: the outer iteration is about to set its stone)
NodeLoop(g, heur, depth, alpha, beta, maximizing, ord, moves, i, j, score_so_far, orig_r, orig_c) ==
    IF i > Len(moves)
    THEN [game |-> [g EXCEPT !.last_row = orig_r, !.last_col = orig_c],
          exc |-> "", score |-> score_so_far]
    ELSE IF j = 0
    THEN NodeLoop(set_stone(g, moves[i][1], moves[i][2], IF maximizing THEN AI ELSE PLAYER),
                  heur, depth, alpha, beta, maximizing, ord, moves, i, i + 1,
                  score_so_far, orig_r, orig_c)
    ELSE IF j > Len(moves)
    THEN NodeLoop(remove_stone(g, moves[i][1], moves[i][2]), heur, depth, alpha, beta,
                  maximizing, ord, moves, i + 1, 0, score_so_far, orig_r, orig_c)
    ELSE NodeNext(heur, depth, alpha, beta, maximizing, ord, moves, i, j,
                  score_so_far, orig_r, orig_c,
                  alpha_beta_node(set_stone(g, moves[j][1], moves[j][2],
                                            IF maximizing THEN AI ELSE PLAYER),
                                  heur, depth - 1, alpha, beta, ~maximizing, ord))

\* AlphaBetaPruning.__max_node
max_node(g, heur, depth, alpha, beta, ord) ==
    NodeLoop(g, heur, depth, alpha, beta, TRUE, ord,
             get_prioritized_moves(g, AB_LIMIT, ord), 1, 0, -MathInf,
             g.last_row, g.last_col)

\* AlphaBetaPruning.__min_node
min_node(g, heur, depth, alpha, beta, ord) ==
    NodeLoop(g, heur, depth, alpha, beta, FALSE, ord,
             get_prioritized_moves(g, AB_LIMIT, ord), 1, 0, MathInf,
             g.last_row, g.last_col)

alpha_beta_node(g, heur, depth, alpha, beta, maximizing_player, ord) ==
    LET win == IF g.last_row # NoneVal /\ g.last_col # NoneVal
               THEN check_winner(g, g.last_row, g.last_col)
               ELSE FALSE
        draw == is_draw(g)
    IN  IF draw.exc # "" THEN [game |-> g, exc |-> draw.exc, score |-> 0]
        ELSE IF depth = 0 \/ draw.val \/ win
        THEN [game |-> g, exc |-> "", score |-> evaluate_board(g, heur, win, draw.val)]
        ELSE IF maximizing_player THEN max_node(g, heur, depth, alpha, beta, ord)
        ELSE min_node(g, heur, depth, alpha, beta, ord)

\* the filled board with 'O' in row 0, but for `holes`
RowPosition(size, holes) ==
    LET filled == FilledPosition(size, {}).grid
    IN  Position(size,
                 {c \in Cells(size) : c \notin holes /\ c[1] # 0 /\ filled[c] = "X"},
                 {c \in Cells(size) : c \notin holes /\ (c[1] = 0 \/ filled[c] = "O")},
                 "O", "alpha_beta", "heuristic_1")

\* the boards the nodes are called on: those of the rules and of the
\* engine, and 6 x 6 boards with one or two empty cells where 'O' completes
\* six at (0, 5)
NodePositions ==
    RulesPositions \cup EnginePositions
    \cup {RowPosition(6, {<<0, 5>>} \cup more) : more \in {{}, {<<3, 3>>}}}

\* the (alpha, beta) windows a node is called with
Windows == {<<-MathInf, MathInf>>, <<-MathInf, 0>>, <<0, MathInf>>}

InitNode ==
    /\ game \in NodePositions
    /\ probe_cache = {}
    /\ pre = game
    /\ op = "init"
    /\ arg = << >>
    /\ ret = FALSE
    /\ turn = << >>
    /\ exc = ""
    /\ reason = ""
    /\ calls = 0
    /\ heap = << >>

\* the frame of a node call that ends with r
NodeCall(name, depth, window, r) ==
    /\ calls < MaxNodeCalls
    /\ game' = r.game
    /\ ret' = r.score
    /\ exc' = r.exc
    /\ pre' = game
    /\ op' = name
    /\ arg' = <<depth, window[1], window[2]>>
    /\ turn' = << >>
    /\ reason' = ""
    /\ calls' = calls + 1
    /\ UNCHANGED <<probe_cache, heap>>

\* self.alpha_beta(game, depth, alpha, beta, maximizing_player)
AlphaBeta(depth, window, maximizing_player, ord) ==
    NodeCall("alpha_beta", depth, window,
             alpha_beta_node(game, game.heuristic, depth, window[1], window[2],
                             maximizing_player, ord))

\* self.__max_node(game, depth, alpha, beta)
MaxNode(depth, window, ord) ==
    NodeCall("__max_node", depth, window,
             max_node(game, game.heuristic, depth, window[1], window[2], ord))

\* self.__min_node(game, depth, alpha, beta)
MinNode(depth, window, ord) ==
    NodeCall("__min_node", depth, window,
             min_node(game, game.heuristic, depth, window[1], window[2], ord))

NextNode ==
    \/ \E depth \in Depths, window \in Windows, maximizing_player \in BOOLEAN,
          ord \in Orders : AlphaBeta(depth, window, maximizing_player, ord)
    \/ \E depth \in Depths, window \in Windows, ord \in Orders :
          MaxNode(depth, window, ord)
    \/ \E depth \in Depths, window \in Windows, ord \in Orders :
          MinNode(depth, window, ord)

SpecNode == InitNode /\ [][NextNode]_vars

\* ------------------------------------------------------- a whole game
\* the cells the players of a whole game choose from: those off the main
\* diagonal, so that no row and no column fills up
OffDiagonal(g) == {c \in g.available_moves : c[1] # c[2]}

\* the valid turn of the side to move that takes its cells from the front
\* (or, for the order "reverse", the back) of the free cells: one cell on
\* the first move, two otherwise; << >> when there are too few
NextTurn(g, ord) ==
    LET free == OffDiagonal(g)
        a == FirstOf(free, g.size, ord)
    IN  IF g.first_move
        THEN (IF free = {} THEN << >> ELSE <<a>>)
        ELSE (IF Cardinality(free) < 2 THEN << >>
              ELSE <<a, FirstOf(free \ {a}, g.size, ord)>>)

InitPlay ==
    /\ game = NewGame(6, "minimax", "heuristic_1")
    /\ probe_cache = {}
    /\ pre = game
    /\ op = "init"
    /\ arg = << >>
    /\ ret = FALSE
    /\ turn = << >>
    /\ exc = ""
    /\ reason = ""
    /\ calls = 0
    /\ heap = << >>

\* the next valid turn of a game that has not ended: game.play_turn(moves)
SubmitTurn(ord) ==
    /\ ret # TRUE
    /\ NextTurn(game, ord) # << >>
    /\ PlayTurnWithin(NextTurn(game, ord), MaxTurns)

NextPlay == \E ord \in Orders : SubmitTurn(ord)

SpecPlay == InitPlay /\ [][NextPlay]_vars

\* ------------------------------------------------------ objects by identity
\* An object is a record with its class in `cls`, a reference the index of
\* the object in the heap h.  A list has `items`, a sequence (of references
\* for the grid, of cells for a row); a set has `items`, a set; a dict has
\* `items`, the pairs <<key, value>>.  An operator that creates objects
\* returns the heap with the object it returns appended last.

\* the module-level dict _SIM_CACHE
SimCacheId == 1

\* the live game: it follows _SIM_CACHE, its rows, grid, Board and set
LiveId == SimCacheId + CopySize + 4

\* the game of value g constructed after the objects of h
Store(h, g) ==
    LET n == Len(h)
        rows == [i \in 1 .. g.size |->
                    [cls |-> "list",
                     items |-> [j \in 1 .. g.size |-> g.grid[<<i - 1, j - 1>>]]]]
    IN  h \o rows \o
        << [cls |-> "list", items |-> [i \in 1 .. g.size |-> n + i]],
           [cls |-> "Board", size |-> g.size, grid |-> n + g.size + 1],
           [cls |-> "set", items |-> g.available_moves],
           [cls |-> "Connect6Game", board |-> n + g.size + 2,
            available_moves |-> n + g.size + 3,
            current_player |-> g.current_player, first_move |-> g.first_move,
            human_player |-> g.human_player, ai_player |-> g.ai_player,
            ai_algorithm |-> g.ai_algorithm, heuristic |-> g.heuristic,
            last_row |-> g.last_row, last_col |-> g.last_col,
            last_human_moves |-> g.last_human_moves] >>

\* the game object `id` read through its references
GameOf(h, id) ==
    LET g == h[id]
        board == h[g.board]
        rows == h[board.grid].items
    IN  [ size |-> board.size,
          grid |-> [c \in Cells(board.size) |-> h[rows[c[1] + 1]].items[c[2] + 1]],
          current_player |-> g.current_player,
          first_move |-> g.first_move,
          human_player |-> g.human_player,
          ai_player |-> g.ai_player,
          ai_algorithm |-> g.ai_algorithm,
          heuristic |-> g.heuristic,
          last_row |-> g.last_row,
          last_col |-> g.last_col,
          last_human_moves |-> g.last_human_moves,
          available_moves |-> h[g.available_moves].items ]

\* copy.copy(grid): a new outer list that holds the same row objects
shallowcopy(h, grid) == Append(h, [cls |-> "list", items |-> h[grid].items])

\* copy.deepcopy(grid): new row lists and a new outer list that holds them
deepcopy(h, grid) ==
    LET rows == h[grid].items
    IN  Append(h \o [i \in 1 .. Len(rows) |-> h[rows[i]]],
               [cls |-> "list", items |-> [i \in 1 .. Len(rows) |-> Len(h) + i]])

\* board.place_move(x, y, player) and _remove_move(x, y) on the game object
\* `id`, for the moves from index k on
RECURSIVE PlaceOn(_, _, _, _, _)
PlaceOn(h, id, moves, k, player) ==
    IF k > Len(moves) THEN h
    ELSE LET x == moves[k][1]
             y == moves[k][2]
             board == h[h[id].board]
             row == h[board.grid].items[x + 1]
             placed == IF InBounds(board.size, x, y) /\ h[row].items[y + 1] = "."
                       THEN [h EXCEPT ![row].items[y + 1] = player]
                       ELSE h
         IN  PlaceOn([placed EXCEPT ![h[id].available_moves].items = @ \ {<<x, y>>}],
                     id, moves, k + 1, player)

\* Connect6Game.make_move_copy on the game object `id`: Board.copy gives the
\* child a Board whose grid is the deepcopy, self.available_moves.copy() a
\* new set; the child is the last object of the heap returned
make_move_copy_object(h, id, moves, player) ==
    LET g == h[id]
        h1 == deepcopy(h, h[g.board].grid)
        h2 == Append(h1, [cls |-> "Board", size |-> h[g.board].size, grid |-> Len(h1)])
        h3 == Append(h2, [cls |-> "set", items |-> h[g.available_moves].items])
        child == Len(h3) + 1
        h4 == Append(h3, [g EXCEPT !.board = Len(h2), !.available_moves = Len(h3),
                                   !.current_player = player, !.last_row = NoneVal,
                                   !.last_col = NoneVal, !.last_human_moves = {}])
    IN  [PlaceOn(h4, child, moves, 1, player) EXCEPT
            ![child].first_move = FALSE,
            ![child].current_player = IF g.first_move THEN player ELSE OtherPlayer(player),
            ![child].last_row = IF Len(moves) > 0 THEN moves[Len(moves)][1] ELSE NoneVal,
            ![child].last_col = IF Len(moves) > 0 THEN moves[Len(moves)][2] ELSE NoneVal,
            ![child].last_human_moves = IF player = g.human_player THEN SeqToSet(moves)
                                        ELSE {}]

\* simulate on the game object `id`: [heap, id], the child served
simulate_object(h, id, moves, player) ==
    LET key == <<board_state_key(GameOf(h, id)), moves, player>>
        hit == {e \in h[SimCacheId].items : e[1] = key}
        made == make_move_copy_object(h, id, moves, player)
    IN  IF hit # {} THEN [heap |-> h, id |-> (CHOOSE e \in hit : TRUE)[2]]
        ELSE [heap |-> [made EXCEPT ![SimCacheId].items = @ \cup {<<key, Len(made)>>}],
              id |-> Len(made)]

\* the game objects of the heap
GameIds(h) == {i \in 1 .. Len(h) : h[i].cls = "Connect6Game"}

\* the game that is copied first and the turns the copies are made with
CopyPositions == {NewGame(CopySize, "minimax", "heuristic_1")}

CopyTurns == {<< <<0, 0>> >>, << <<0, 0>>, <<2, 2>> >>}

InitCopy ==
    /\ game \in CopyPositions
    /\ heap = Store(<< [cls |-> "dict", items |-> {}] >>, game)
    /\ probe_cache = {}
    /\ pre = game
    /\ op = "init"
    /\ arg = << >>
    /\ ret = FALSE
    /\ turn = << >>
    /\ exc = ""
    /\ reason = ""
    /\ calls = 0

\* the frame of a call that leaves the heap h and returns the reference id
ObjectCall(name, moves, h, id) ==
    /\ calls < MaxCopyCalls
    /\ heap' = h
    /\ game' = GameOf(h, LiveId)
    /\ ret' = id
    /\ pre' = game
    /\ op' = name
    /\ arg' = moves
    /\ turn' = << >>
    /\ exc' = ""
    /\ reason' = ""
    /\ calls' = calls + 1
    /\ UNCHANGED probe_cache

\* parent.make_move_copy(moves, player), parent any game object
MakeMoveCopy(parent, moves, player) ==
    \E h \in {make_move_copy_object(heap, parent, moves, player)} :
        ObjectCall("make_move_copy", moves, h, Len(h))

\* simulate(parent, moves, player)
Simulate(parent, moves, player) ==
    \E r \in {simulate_object(heap, parent, moves, player)} :
        ObjectCall("simulate", moves, r.heap, r.id)

\* a later change to a child: child.board.place_move(x, y, player) and
\* child._remove_move(x, y)
ChangeChild(child, moves, player) ==
    \E h \in {PlaceOn(heap, child, moves, 1, player)} :
        ObjectCall("place_move", moves, h, child)

NextCopy ==
    \/ \E parent \in GameIds(heap), moves \in CopyTurns, player \in Players :
           MakeMoveCopy(parent, moves, player)
    \/ \E parent \in GameIds(heap), moves \in CopyTurns, player \in Players :
           Simulate(parent, moves, player)
    \/ \E child \in GameIds(heap) \ {LiveId}, moves \in CopyTurns, player \in Players :
           ChangeChild(child, moves, player)

SpecCopy == InitCopy /\ [][NextCopy]_vars

\* ------------------------------------------------------------------ claims
\* the stone at c lies in a window of six same-coloured cells on some axis
InSixRun(grid, size, c) ==
    /\ InBounds(size, c[1], c[2])
    /\ grid[c] # EMPTY
    /\ \E k \in 1 .. 4 : \E s \in 0 .. 5 :
          \A t \in 0 .. 5 :
             LET x == c[1] + (t - s) * directions[k][1]
                 y == c[2] + (t - s) * directions[k][2]
             IN  InBounds(size, x, y) /\ grid[<<x, y>>] = grid[c]

\* the turn has the length the state requires, and its coordinates are in
\* bounds, empty and pairwise distinct
LegalTurn(g, moves) ==
    /\ Len(moves) = (IF g.first_move THEN 1 ELSE 2)
    /\ \A i \in 1 .. Len(moves) :
          /\ InBounds(g.size, moves[i][1], moves[i][2])
          /\ g.grid[moves[i]] = EMPTY
    /\ \A i, j \in 1 .. Len(moves) : i # j => moves[i] # moves[j]

\* the number of empty cells of the board
EmptyCount(g) == Cardinality({c \in Cells(g.size) : g.grid[c] = EMPTY})

\* C2: check_winner(x, y) returns true exactly when (x, y) is in bounds,
\* holds a stone and that stone lies in a same-colour run of six or more on
\* one of the four axes; the answer is the same whoever is to move.
C2_CheckWinner ==
    op = "check_winner" =>
        /\ ret = InSixRun(pre.grid, pre.size, arg[1])
        /\ ret = check_winner(switch_player(pre), arg[1][1], arg[1][2])
        /\ game = pre

\* C2 witness: check_winner answered true for a stone in a run of six
C2_Witness ==
    /\ op = "check_winner"
    /\ ret = TRUE
    /\ InSixRun(pre.grid, pre.size, arg[1])

\* C3: play_turn either places every stone of the turn and switches the
\* player (or ends the game), or changes nothing.
C3_Atomic ==
    op = "play_turn" =>
        \/ game = pre
        \/ /\ exc = ""
           /\ \A i \in 1 .. Len(arg) : game.grid[arg[i]] = pre.current_player
           /\ ret = TRUE \/ game.current_player = OtherPlayer(pre.current_player)

\* C4: a turn that fails validation leaves the game as it was and
\* play_turn reports that the game has not ended.
C4_InvalidTurn ==
    (op = "play_turn" /\ ~LegalTurn(pre, arg)) =>
        /\ game = pre
        /\ ret = FALSE
        /\ exc = ""

\* C4 witness: play_turn was given a two-stone turn that names a cell twice
C4_Witness ==
    /\ op = "play_turn"
    /\ Len(arg) = 2
    /\ ~pre.first_move
    /\ arg[1] = arg[2]
    /\ arg[1] \in pre.available_moves
    /\ game = pre

\* C5: _validate_moves_atomic returns (True, "") exactly for a turn of the
\* required length whose coordinates are in bounds, empty and distinct, and
\* (False, reason) with a non-empty reason otherwise; the game is unchanged.
C5_Validate ==
    op = "_validate_moves_atomic" =>
        /\ ret = LegalTurn(pre, arg)
        /\ ret => reason = ""
        /\ ~ret => reason # ""
        /\ game = pre

\* C5 witness: a turn of the right length rejected for an occupied cell
C5_Witness ==
    /\ op = "_validate_moves_atomic"
    /\ ~ret
    /\ Len(arg) = 2
    /\ ~pre.first_move
    /\ arg[1] \in pre.available_moves
    /\ InBounds(pre.size, arg[2][1], arg[2][2])
    /\ pre.grid[arg[2]] # EMPTY
    /\ reason # ""

\* C6: is_draw returns, without failing, true exactly when the board is
\* full, or the size is even, one cell is empty and first_move is false.
C6_IsDraw ==
    op = "is_draw" =>
        /\ exc = ""
        /\ ret = (\/ EmptyCount(pre) = 0
                  \/ pre.size % 2 = 0 /\ EmptyCount(pre) = 1 /\ ~pre.first_move)

\* ------------------------------------------------------ claims on the engine
\* the two-stone turns with which `player` completes six in a row from g
WinningTurns(g, player) ==
    {t \in g.available_moves \X g.available_moves :
        /\ t[1] # t[2]
        /\ PlaceLoop([g EXCEPT !.current_player = player], <<t[1], t[2]>>, 1).won}

\* the turn `moves` is legal in g and wins the game for the player to move
WinsWith(g, moves) == LegalTurn(g, moves) /\ PlaceLoop(g, moves, 1).won

\* the cells from c + d on, five of them, hold stones of `player` and the
\* sixth does not: c touches a run of exactly five along d
EndOfFive(g, c, d, player) ==
    /\ \A t \in 1 .. 5 :
          /\ InBounds(g.size, c[1] + t * d[1], c[2] + t * d[2])
          /\ g.grid[<<c[1] + t * d[1], c[2] + t * d[2]>>] = player
    /\ ~(/\ InBounds(g.size, c[1] + 6 * d[1], c[2] + 6 * d[2])
         /\ g.grid[<<c[1] + 6 * d[1], c[2] + 6 * d[2]>>] = player)

\* the empty cells at an end of a run of exactly five stones of `player`
BlockingCells(g, player) ==
    {c \in Cells(g.size) :
        /\ g.grid[c] = EMPTY
        /\ \E k \in 1 .. 4 :
              \/ EndOfFive(g, c, directions[k], player)
              \/ EndOfFive(g, c, <<-directions[k][1], -directions[k][2]>>, player)}

\* get_ai_move was called with the engine to move and two stones to place
EngineToMove ==
    /\ op = "get_ai_move"
    /\ pre.current_player = ai_player
    /\ ~pre.first_move

\* C1: when a legal turn exists, get_ai_move returns a turn of the required
\* length whose coordinates are distinct, in bounds and empty on the board.
C1_LegalTurn ==
    (op = "get_ai_move" /\ EmptyCount(pre) >= (IF pre.first_move THEN 1 ELSE 2)) =>
        /\ Len(turn) = (IF pre.first_move THEN 1 ELSE 2)
        /\ LegalTurn([game EXCEPT !.first_move = pre.first_move], turn)

\* C7: when the engine has a turn that completes six in a row, the turn
\* get_ai_move returns wins the game when it is played.
C7_WinningTurn ==
    (EngineToMove /\ WinningTurns(pre, ai_player) # {}) => WinsWith(game, turn)

\* C8: when the opponent has a run of exactly five with an empty end and the
\* engine has no winning turn, the returned turn holds an empty end of it.
C8_BlocksFive ==
    (/\ EngineToMove
     /\ BlockingCells(pre, human_player) # {}
     /\ WinningTurns(pre, ai_player) = {}) =>
        \E i \in 1 .. Len(turn) : turn[i] \in BlockingCells(pre, human_player)

\* C9: on the 9 x 9 board with five opponent stones in row 4, columns 3 to
\* 7, the engine to move, the returned two-stone turn holds (4, 2) or (4, 8).
C9_Row4 ==
    (EngineToMove /\ pre.grid = Row4Position.grid) =>
        /\ Len(turn) = 2
        /\ \E i \in 1 .. Len(turn) : turn[i] \in {<<4, 2>>, <<4, 8>>}

\* C10: when the engine has a winning turn and the opponent threatens to win
\* on the next turn, the returned turn is a winning turn, not a block.
C10_WinBeforeBlock ==
    (/\ EngineToMove
     /\ WinningTurns(pre, ai_player) # {}
     /\ WinningTurns(pre, human_player) # {}) =>
        WinsWith(game, turn)

\* ------------------------------------------------ claims on the search frame
\* the number of stones the state requires of a turn
RequiredMoves(g) == IF g.first_move THEN 1 ELSE 2

\* C11: when the board has fewer empty cells than the turn requires (none,
\* or one while two stones are required), get_ai_move returns the empty list.
C11_NoLegalTurn ==
    (op = "get_ai_move" /\ EmptyCount(pre) < RequiredMoves(pre)) => turn = << >>

\* C12: get_ai_move leaves the game it is called on unchanged: the grid,
\* available_moves, current_player, first_move, last_row and last_col are
\* what they were before the call.
C12_SearchFrame ==
    op = "get_ai_move" =>
        /\ game.grid = pre.grid
        /\ game.available_moves = pre.available_moves
        /\ game.current_player = pre.current_player
        /\ game.first_move = pre.first_move
        /\ game.last_row = pre.last_row
        /\ game.last_col = pre.last_col

\* available_moves holds exactly the coordinates of the empty cells
InSync(g) == g.available_moves = {c \in Cells(g.size) : g.grid[c] = EMPTY}

\* the state holds a game no earlier state of the behaviour held: the initial
\* one, or the one a call has just changed
NewPosition == op = "init" \/ game # pre

\* C13: available_moves is the set of empty cells in the live game after
\* every call, in every child make_move_copy returns for it, and after every
\* set_stone and remove_stone the alpha-beta search performs on it (the
\* children and the search stones are examined once for each game).
C13_AvailableSync ==
    /\ InSync(game)
    /\ NewPosition =>
           LET cells == InputCells(game) \cap game.available_moves
               turns == InputTurns(game)
           IN  /\ \A moves \in turns : \A player \in Players :
                     InSync(make_move_copy(game, moves, player))
               /\ \A c \in game.available_moves :
                     /\ InSync(set_stone(game, c[1], c[2], AI))
                     /\ InSync(remove_stone(set_stone(game, c[1], c[2], AI), c[1], c[2]))
               /\ \A c, d \in cells :
                     c # d =>
                         /\ InSync(set_stone(set_stone(game, c[1], c[2], AI),
                                             d[1], d[2], AI))
                         /\ InSync(remove_stone(set_stone(set_stone(game, c[1], c[2], AI),
                                                         d[1], d[2], AI), d[1], d[2]))

\* C13 witness: play_turn has placed a stone and taken its cell out of
\* available_moves
C13_Witness ==
    /\ op = "play_turn"
    /\ Stones(game) # Stones(pre)
    /\ pre.available_moves # game.available_moves
    /\ InSync(game)

\* C16: an accepted turn changes no stone that was on the board; when it
\* does not end the game it has placed exactly the required number of stones
\* (one at the opening, two later), all of the colour of the player who was
\* to move, and the other player is to move.
C16_TurnShape ==
    (op = "play_turn" /\ LegalTurn(pre, arg)) =>
        /\ \A c \in Stones(pre) : game.grid[c] = pre.grid[c]
        /\ ret = TRUE
           \/ /\ exc = ""
              /\ Cardinality(Stones(game) \ Stones(pre)) = RequiredMoves(pre)
              /\ \A c \in Stones(game) \ Stones(pre) : game.grid[c] = pre.current_player
              /\ game.current_player = OtherPlayer(pre.current_player)

\* C17: in the live game first_move is true only while no stone is on the
\* board.
C17_FirstMoveFlag == game.first_move => Stones(game) = {}

\* the list is not empty and holds only in-bounds empty cells of g
EmptyCellList(list, g) ==
    /\ list # << >>
    /\ \A i \in 1 .. Len(list) :
          InBounds(g.size, list[i][1], list[i][2]) /\ g.grid[list[i]] = EMPTY

\* the live game and the children a one-stone simulation makes of it
SearchStates(g) ==
    {g} \cup {make_move_copy(g, <<c>>, player) :
                 c \in InputCells(g) \cap g.available_moves, player \in Players}

\* C18: in every state with an empty cell the candidate list of minimax
\* (near the last human move, else near any stone, else every empty cell)
\* and the list of get_prioritized_moves are non-empty lists of in-bounds
\* empty cells (each game is examined once, with its simulated children).
C18_Candidates ==
    NewPosition =>
        \A g \in SearchStates(game) : \A ord \in Orders :
            g.available_moves # {} =>
                /\ EmptyCellList(get_candidate_moves(g, DEFAULT_RADIUS), g)
                /\ EmptyCellList(root_candidates(g, ord), g)
                /\ EmptyCellList(get_prioritized_moves(g, AB_LIMIT, ord), g)

\* C18 witness: after a turn was played the live game has no recorded last
\* move, so its candidates are the empty cells near a stone, while a child
\* of it takes its candidates from the cells near the simulated human move
C18_Witness ==
    /\ op = "play_turn"
    /\ Stones(game) # Stones(pre)
    /\ get_candidate_moves_near_last_human(game, HUMAN_FOCUS_RADIUS) = {}
    /\ EmptyCellList(root_candidates(game, "reverse"), game)
    /\ \E g \in SearchStates(game) :
          /\ get_candidate_moves_near_last_human(g, HUMAN_FOCUS_RADIUS) # {}
          /\ EmptyCellList(root_candidates(g, "reverse"), g)

\* ----------------------------------------------- claims on the evaluators
\* the game with the two colours exchanged as engine and human
SwapAi(g) == [g EXCEPT !.ai_player = g.human_player, !.human_player = g.ai_player]

\* C19: on a fixed board heuristic_1 and heuristic_2 return, with the other
\* colour as the engine's, the negation of the score.
C19_SideNegation ==
    /\ op = "heuristic_1" => ret = -heuristic_1(SwapAi(pre))
    /\ op = "heuristic_2" => ret = -heuristic_2(SwapAi(pre))

\* C19 witness: heuristic_2 returned a score other than zero on a board
\* with stones, and the exchanged colours give its negation
C19_Witness ==
    /\ op = "heuristic_2"
    /\ Stones(pre) # {}
    /\ ret # 0
    /\ heuristic_2(SwapAi(pre)) = -ret

\* the games with the board, ai_player and heuristic of g and any other
\* fields
SameBoard(g) ==
    {[g EXCEPT !.current_player = cur, !.first_move = fm, !.ai_algorithm = alg,
               !.last_row = last, !.last_col = last,
               !.last_human_moves = {}, !.available_moves = {}] :
        cur \in Players, fm \in BOOLEAN, alg \in Algorithms, last \in {NoneVal, 0}}

\* C20: evaluate_position changes no field of the game, returns the same
\* score for every state with the same board, ai_player and heuristic, and
\* returns the same score when it is called again.
C20_Deterministic ==
    /\ [](op = "evaluate_position" =>
             /\ game = pre
             /\ \A g \in SameBoard(pre) : evaluate_position(g) = ret)
    /\ [][(op = "evaluate_position" /\ op' = "evaluate_position") => ret' = ret]_vars

\* C20 witness: evaluate_position was called twice on a board with stones
\* and returned a score other than zero
C20_Witness ==
    /\ op = "evaluate_position"
    /\ calls = 2
    /\ Stones(pre) # {}
    /\ pre.current_player # pre.ai_player
    /\ ret # 0
    /\ game = pre

\* ------------------------------------------------- claims on the caches
\* C15: the turn get_ai_move returns is the turn it returns for the same
\* game when no call was made before it, that is with empty caches.
C15_OwnCache ==
    op = "get_ai_move" =>
        \E depth \in Depths, ord \in Orders : turn = get_ai_move(pre, depth, ord, {}).ret

\* ---------------------------------------------------- claims on the copies
\* the objects the game object `id` holds: its Board, its grid, the rows of
\* the grid and its available_moves set
Owned(h, id) ==
    LET board == h[id].board
        grid == h[board].grid
    IN  {board, grid, h[id].available_moves} \cup SeqToSet(h[grid].items)

\* C14: make_move_copy, simulate and a later change to a child leave the
\* live game as it was; no two game objects hold an object in common; and
\* the child make_move_copy returns is the parent's position with the moves
\* applied.
C14_CopyIndependent ==
    /\ op \in {"make_move_copy", "simulate", "place_move"} => game = pre
    /\ \A i, j \in GameIds(heap) : i # j => Owned(heap, i) \cap Owned(heap, j) = {}
    /\ op = "make_move_copy" =>
          \E parent \in GameIds(heap) \ {ret}, player \in Players :
              GameOf(heap, ret) = make_move_copy(GameOf(heap, parent), arg, player)

\* C14 witness: a stone was placed on a child served from the simulation
\* cache at a cell that is still empty in the live game
C14_Witness ==
    /\ op = "place_move"
    /\ \E e \in heap[SimCacheId].items : e[2] = ret
    /\ \E c \in Cells(CopySize) :
          /\ GameOf(heap, ret).grid[c] # EMPTY
          /\ c \notin GameOf(heap, ret).available_moves
          /\ game.grid[c] = EMPTY
          /\ c \in game.available_moves
    /\ game = pre

\* ------------------------------------------------- claims on search nodes
\* the game at the child node of a two-stone node: both stones of `player`
\* set on the shared board, b last
PairSet(g, a, b, player) ==
    set_stone(set_stone(g, a[1], a[2], player), b[1], b[2], player)

\* C21: at a two-stone node, a pair of which either stone completes
\* six-in-a-row for the side placing it is scored as a certain win for that
\* side: the child of __max_node (stones of AI) scores +inf and the child of
\* __min_node (stones of PLAYER) -inf in alpha_beta, and minimax's recurse
\* returns INF at a maximizing node and -INF at a minimizing one.
C21_PairWin ==
    NewPosition =>
        \A a, b \in InputCells(game) \cap game.available_moves :
            \A player \in Players :
                (a # b /\ PairWins(game, a, b, player)) =>
                    /\ alpha_beta(PairSet(game, a, b, player), game.heuristic, 1,
                                  -MathInf, MathInf, player # AI)
                         = [exc |-> "", score |-> IF player = AI THEN MathInf ELSE -MathInf]
                    /\ \A maximizing \in BOOLEAN :
                          LET r == recurse([game EXCEPT !.current_player = player], 1,
                                           maximizing, {})
                          IN  r.exc = "" /\ r.score = (IF maximizing THEN INF ELSE -INF)

\* the shared board as a node call may change it
BoardOf(g) == <<g.grid, g.available_moves, g.last_row, g.last_col>>

\* C22: when a node call (alpha_beta, __max_node, __min_node) ends, the
\* grid, available_moves, last_row and last_col of the shared board are
\* what they were at entry.
C22_NodeRestores ==
    op \in {"alpha_beta", "__max_node", "__min_node"} => BoardOf(game) = BoardOf(pre)

\* C23: for a valid turn that does not end the game, the child
\* make_move_copy(turn, current_player) makes of the state before the turn
\* has the grid, available_moves, first_move and current_player that
\* play_turn(turn) leaves, and its current_player is the opponent of the
\* mover.
C23_CopyIsTurn ==
    (op = "play_turn" /\ LegalTurn(pre, arg) /\ ret # TRUE) =>
        LET child == make_move_copy(pre, arg, pre.current_player)
        IN  /\ child.grid = game.grid
            /\ child.available_moves = game.available_moves
            /\ child.first_move = game.first_move
            /\ child.current_player = game.current_player
            /\ child.current_player = OtherPlayer(pre.current_player)

\* ------------------------------------------------ claims on the evaluators
\* the length of the maximal run that starts at c and runs along d, 0 when
\* no maximal run starts there (c is empty, or the cell before c holds the
\* same colour)
RunStart(g, c, d) ==
    IF g.grid[c] = EMPTY THEN 0
    ELSE IF InBounds(g.size, c[1] - d[1], c[2] - d[2])
            /\ g.grid[<<c[1] - d[1], c[2] - d[2]>>] = g.grid[c]
    THEN 0
    ELSE AxisCount(g.grid, g.size, c[1], c[2], d, g.grid[c])

\* the runs of the board: <<first cell, direction, length>>
Runs(g) ==
    {<<c, k, RunStart(g, c, directions[k])>> : c \in Cells(g.size), k \in 1 .. 4}

\* the sum over the maximal runs of length 2 to 5 of +w(length) for the AI
\* colour and -w(length) for the other, in tenths
RunScore(g) ==
    LET counted == {r \in Runs(g) : 2 <= r[3] /\ r[3] <= 5}
    IN  SumOver(counted,
                [r \in counted |->
                    IF g.grid[r[1]] = g.ai_player THEN 10 * weights(r[3])
                    ELSE -10 * weights(r[3])])

\* C24: heuristic_1 returns the sum over every maximal run of length 2 to 5
\* of +w(length) for the AI colour and -w(length) for the other colour,
\* each run counted once.
C24_RunSum == op = "heuristic_1" => ret = RunScore(pre)

\* the run through the stone at c along d has an empty cell immediately
\* beyond one of its two ends
OpenEnd(g, c, d) ==
    LET player == g.grid[c]
        fwd == CountRun(g.grid, g.size, c[1] + d[1], c[2] + d[2], d[1], d[2], player)
        bwd == CountRun(g.grid, g.size, c[1] - d[1], c[2] - d[2], -d[1], -d[2], player)
        end1 == <<c[1] + (fwd + 1) * d[1], c[2] + (fwd + 1) * d[2]>>
        end2 == <<c[1] - (bwd + 1) * d[1], c[2] - (bwd + 1) * d[2]>>
    IN  \/ InBounds(g.size, end1[1], end1[2]) /\ g.grid[end1] = EMPTY
        \/ InBounds(g.size, end2[1], end2[2]) /\ g.grid[end2] = EMPTY

\* the stones of the run through the stone at c along d
RunCells(g, c, d) ==
    {e \in Stones(g) :
        \E t \in -(g.size) .. g.size :
            /\ e = <<c[1] + t * d[1], c[2] + t * d[2]>>
            /\ \A u \in 0 .. Abs(t) :
                  g.grid[<<c[1] + (IF t < 0 THEN -u ELSE u) * d[1],
                           c[2] + (IF t < 0 THEN -u ELSE u) * d[2]>>] = g.grid[c]}

\* what the scan of the stone at c along d adds for a threat, in tenths
ThreatTerm(g, c, d) == H2Dir(g, c, d) - H1Dir(g, c, d)

\* C25: heuristic_2 adds the threat bonus (of the sign of the colour) for a
\* run of exactly five if and only if the run has an empty cell immediately
\* beyond one of its ends; a run of five without one gets no bonus from the
\* scan of any of its stones, and no other run gets one.
C25_ThreatBonus ==
    op = "heuristic_2" =>
        /\ ret = heuristic_2(pre)
        /\ \A c \in Stones(pre) : \A k \in 1 .. 4 :
              LET d == directions[k]
                  five == AxisCount(pre.grid, pre.size, c[1], c[2], d, pre.grid[c]) = 5
                  bonus == IF pre.grid[c] = pre.ai_player THEN 10 * threat_weight
                           ELSE -10 * threat_weight
              IN  /\ ThreatTerm(pre, c, d) \in {0, bonus}
                  /\ (\E e \in RunCells(pre, c, d) : ThreatTerm(pre, e, d) # 0)
                        <=> (five /\ OpenEnd(pre, c, d))

\* ------------------------------------------------ claims on move ordering
\* the class of the empty cell c for the side `mover`: 1 it gives the mover
\* six-in-a-row, 2 it blocks a run of the opponent reaching five, 3 one
\* reaching four, 4 it extends a run of the mover to four or more, 5 other
RankClass(g, c, mover) ==
    LET mine == check_threat_at_position(g, c[1], c[2], mover)
        theirs == check_threat_at_position(g, c[1], c[2], OtherPlayer(mover))
    IN  IF mine >= 6 THEN 1
        ELSE IF theirs >= 5 THEN 2
        ELSE IF theirs >= 4 THEN 3
        ELSE IF mine >= 4 THEN 4
        ELSE 5

\* the list is in the order of the classes of `mover`, without duplicates
Ranked(g, list, mover) ==
    \A i, j \in 1 .. Len(list) :
        i < j => /\ list[i] # list[j]
                 /\ RankClass(g, list[i], mover) <= RankClass(g, list[j], mover)

\* C26: once more than 5 stones are on the board, the list a node ranks
\* its candidates with (__max_node places the stones of AI, __min_node those
\* of PLAYER) is in the order of the classes of the side to move at that
\* node, has no duplicates and, with a limit, is the first `limit` entries
\* of the list without one.
C26_NodeRanking ==
    (NewPosition /\ Cardinality(Stones(game)) > 5) =>
        \A ord \in Orders :
            /\ Ranked(game, get_prioritized_moves(game, AB_LIMIT, ord), AI)
            /\ Ranked(game, get_prioritized_moves(game, AB_LIMIT, ord), PLAYER)
            /\ get_prioritized_moves(game, AB_LIMIT, ord)
                  = Take(get_prioritized_moves(game, game.size * game.size, ord), AB_LIMIT)

\* ------------------------------------------------- claims on the pruning
\* plain minimax, without cut-offs, over the tree of the pairs (i < j) of
\* get_prioritized_moves: a node is a leaf at depth 0, on a win of the last
\* stone and on a full board, and is scored there by __evaluate_board
RECURSIVE PlainValue(_, _, _, _, _)
RECURSIVE PlainPairs(_, _, _, _, _, _, _, _)

\* the best value of the pairs (i, j), (i, j + 1), ... and of the pairs of
\* the later first stones of `moves` at the node g
PlainPairs(g, heur, depth, maximizing, ord, moves, i, j) ==
    IF i >= Len(moves) THEN (IF maximizing THEN -MathInf ELSE MathInf)
    ELSE IF j > Len(moves)
    THEN PlainPairs(g, heur, depth, maximizing, ord, moves, i + 1, i + 2)
    ELSE NodeScore(maximizing,
                   PlainValue(PairSet(g, moves[i], moves[j],
                                      IF maximizing THEN AI ELSE PLAYER),
                              heur, depth - 1, ~maximizing, ord),
                   PlainPairs(g, heur, depth, maximizing, ord, moves, i, j + 1))

PlainValue(g, heur, depth, maximizing, ord) ==
    LET win == IF g.last_row # NoneVal /\ g.last_col # NoneVal
               THEN check_winner(g, g.last_row, g.last_col)
               ELSE FALSE
        full == g.available_moves = {}
    IN  IF depth = 0 \/ full \/ win THEN evaluate_board(g, heur, win, full)
        ELSE PlainPairs(g, heur, depth, maximizing, ord,
                        get_prioritized_moves(g, AB_LIMIT, ord), 1, 2)

\* C27: alpha_beta(game, depth, -inf, +inf, maximizing) returns the value
\* of plain minimax over the same tree, for every state and depth.
C27_PruningSound ==
    NewPosition =>
        \A depth \in Depths, maximizing \in BOOLEAN, ord \in Orders :
            LET r == alpha_beta_node(game, game.heuristic, depth, -MathInf, MathInf,
                                     maximizing, ord)
            IN  r.exc = "" /\ r.score = PlainValue(game, game.heuristic, depth, maximizing, ord)

\* ------------------------------------------------ claims on the game's end
\* C28: when play_turn returns True because a placed stone completed
\* six-in-a-row, is_draw() called next returns False, so that the callers
\* announce the winner.
C28_WinIsWin ==
    (op = "play_turn" /\ WinsWith(pre, arg)) =>
        /\ ret = TRUE
        /\ is_draw(game) = [val |-> FALSE, exc |-> ""]

C30_TurnBound ==
    op = "play_turn" =>
        /\ Cardinality(Stones(game)) > Cardinality(Stones(pre))
        /\ (calls >= (game.size * game.size + 1) \div 2 => ret = TRUE)

====
